---- MODULE Spec2Model ----
(***************************************************************************)
(* The follow-relationship state machine of                                *)
(* packages/backend/src/core/ChannelFollowingService.ts.                   *)
(*                                                                         *)
(* Reading of the source.  The file names one entity with several          *)
(* identifiers; a name that has no declaration in scope is read as the     *)
(* declared name of the same role:                                         *)
(*   - `followee` and `channel` name the followed actor (follow declares   *)
(*     `channel` and uses `followee`; insertFollowingDoc likewise);        *)
(*   - the first parameter of unfollow (declared `channel`) is the         *)
(*     follower: it is the `followerId` of the lookup and the body calls   *)
(*     it `follower`;                                                      *)
(*   - `followRequestsRepository` is the injected                          *)
(*     `channelFollowRequestsRepository` (the FollowRequest store), and    *)
(*     `followingsRepository` is the Following store;                      *)
(*   - the unique index of ChannelFollowRequest is on the ordered pair.    *)
(* Every actor is found by the user, profile and channel lookups the code  *)
(* makes for it, and carries an owner (`channel.user`).                    *)
(*                                                                         *)
(* A step of a call is the code between two awaits: the database           *)
(* operation that the await waits for, then the synchronous code up to     *)
(* the next await.  Calls that the code does not await run as tasks of     *)
(* their own.                                                              *)
(***************************************************************************)
EXTENDS Integers, Sequences, FiniteSets, Bags, TLC

\* ---------------------------------------------------------------- bounds
MaxCalls == 2
MaxInitRows == 1

\* ---------------------------------------------------------------- actors
Users == {"u1", "u2", "r1"}
Actors == Users \cup {"c1"}
None == "none"

\* host == null  <=>  local
IsRemote(a) == a = "r1"
IsLocal(a) == ~IsRemote(a)

isLocked == [a \in Actors |-> a = "u2"]
isBot == [a \in Actors |-> a = "u2"]
carefulBot == [a \in Actors |-> a = "c1"]
autoAcceptFollowed == [a \in Actors |-> a = "u2"]
\* channel.user.id : the owner of a followed entity
OwnerOf == [a \in Actors |-> IF a = "c1" THEN "u1" ELSE a]
\* prior identities named by an actor's alsoKnownAs, and where a moved actor went
AlsoKnownAs == [a \in Actors |-> IF a = "u1" THEN {"r1"} ELSE {}]
MovedTarget == [a \in Actors |-> IF a = "r1" THEN "u1" ELSE None]
Movable == {a \in Actors : MovedTarget[a] # None}

Pairs == Users \X Actors
NonSelfPairs == {p \in Pairs : p[1] # p[2]}

\* ----------------------------------------------------------------- state
VARIABLES
    followRequests,   \* rows of channelFollowRequestsRepository: <<follower, followee>>
    followings,       \* rows of followingsRepository: <<follower, followee>>
    blockings,        \* <<blocker, blockee>>
    moved,            \* actors whose movedToUri is set
    followingCount,   \* User.followingCount
    followersCount,   \* User.followersCount
    target,           \* the followee the calls of this run are about
    threads,          \* the calls and tasks in flight (a bag of call records)
    calls,            \* number of calls made so far
    out,              \* what the last step handed to queueService.deliver, in order
    pub,              \* what the last step published
    ret               \* the call that returned in the last step, with its result

vars == <<followRequests, followings, blockings, moved, followingCount,
          followersCount, target, threads, calls, out, pub, ret>>
stores == <<followRequests, followings>>
counters == <<followingCount, followersCount>>

\* What a call found stored when it was made.  The code keeps no such
\* record: the field is there for the statements about a call's effect.
NoPre == [requests |-> {}, followings |-> {}, blockings |-> {}, moved |-> {},
          followingCount |-> <<>>, followersCount |-> <<>>]
Pre == [requests |-> followRequests, followings |-> followings,
        blockings |-> blockings, moved |-> moved,
        followingCount |-> followingCount, followersCount |-> followersCount]

\* The value of `ret` after a step in which no call returned.
NoReturn == [op |-> "idle", f |-> None, e |-> None, top |-> FALSE, res |-> None, pre |-> NoPre]

\* A call in flight.  Gone stands for a call that has returned.
Gone == [op |-> "idle", pc |-> "idle", f |-> None, e |-> None, top |-> FALSE,
         auto |-> FALSE, dup |-> FALSE, pend |-> {},
         mF |-> FALSE, mE |-> FALSE, n1 |-> 0, n2 |-> 0, pre |-> NoPre]

NewCall(o, pc0, f0, e0) ==
    [Gone EXCEPT !.op = o, !.pc = pc0, !.f = f0, !.e = e0, !.top = TRUE, !.pre = Pre]

One(r) == IF r = Gone THEN EmptyBag ELSE SetToBag({r})
Running == BagToSet(threads)
CanStart == calls < MaxCalls

Delivery(type, to, f, e) == [type |-> type, to |-> to, f |-> f, e |-> e]
Returned(r, result) ==
    [op |-> r.op, f |-> r.f, e |-> r.e, top |-> r.top, res |-> result, pre |-> r.pre]

\* The outcome of a step of call r: the call goes on at pc, or returns.
GoOn(r, pc) == [nxt |-> [r EXCEPT !.pc = pc], out |-> <<>>, pub |-> {}, ret |-> NoReturn]
Return(r, result, o, p) == [nxt |-> Gone, out |-> o, pub |-> p, ret |-> Returned(r, result)]

\* Call r takes a step with outcome o, starting task `task` (Gone: none).
Step(r, o, task) ==
    /\ UNCHANGED target
    /\ threads' = ((threads (-) One(r)) (+) One(o.nxt)) (+) One(task)
    /\ out' = o.out
    /\ pub' = o.pub
    /\ ret' = o.ret

EdgesFrom(a) == {p \in followings : p[1] = a}
EdgesTo(a) == {p \in followings : p[2] = a}

\* The pairs the calls of a run can touch: those with `target` on one side.
AboutTarget ==
    {p \in Actors \X Actors : p[1] # OwnerOf[p[2]] /\ p[1] # p[2] /\ target \in {p[1], p[2]}}
Reverse(p) == <<p[2], p[1]>>

\* The database when the service starts: some edges, pending requests and
\* blocks, nobody following what they own, no pair with both a request and
\* an edge, no request or edge between a blocking pair, counters in step
\* with the edges.
Init ==
    /\ target \in Actors
    /\ followings \in SUBSET AboutTarget
    /\ followRequests \in SUBSET {p \in AboutTarget : p[2] = target /\ p[1] \in Users}
    /\ blockings \in SUBSET {p \in AboutTarget : p[1] \in Users \/ p[2] \in Users}
    /\ followings \cap followRequests = {}
    /\ \A p \in blockings : {p, Reverse(p)} \cap (followings \cup followRequests) = {}
    /\ Cardinality(followings) + Cardinality(followRequests) + Cardinality(blockings) <= MaxInitRows
    /\ moved = {}
    /\ followingCount = [a \in Actors |-> Cardinality(EdgesFrom(a))]
    /\ followersCount = [a \in Actors |-> Cardinality(EdgesTo(a))]
    /\ threads = EmptyBag
    /\ calls = 0
    /\ out = <<>>
    /\ pub = {}
    /\ ret = NoReturn

\* -------------------------------------------------- collaborators (external)
\* UserBlockingService.checkBlocked(blockerId, blockeeId)
checkBlocked(a, b) == <<a, b>> \in blockings

\* A block created by the blocking service.
Block(a, b) ==
    /\ calls < MaxCalls
    /\ a # b
    /\ <<a, b>> \notin blockings
    /\ blockings' = blockings \cup {<<a, b>>}
    /\ calls' = calls + 1
    /\ out' = <<>> /\ pub' = {} /\ ret' = NoReturn
    /\ UNCHANGED <<followRequests, followings, moved, followingCount,
                   followersCount, target, threads>>

\* An account migration: the actor acquires movedToUri.
Move(a) ==
    /\ a \notin moved
    /\ moved' = moved \cup {a}
    /\ out' = <<>> /\ pub' = {} /\ ret' = NoReturn
    /\ UNCHANGED <<followRequests, followings, blockings, followingCount,
                   followersCount, target, threads, calls>>

\* AccountMoveService.validateAlsoKnownAs(follower, check, true) with the
\* callback of follow: a prior identity that moved to the follower and holds
\* an edge to the followee.
validateAlsoKnownAs(f, e) ==
    \E old \in AlsoKnownAs[f] :
        /\ old \in moved
        /\ MovedTarget[old] = f
        /\ <<old, e>> \in followings

\* ------------------------------------------------------ insertFollowingDoc
\* follow, lines 163-166, and acceptFollowRequest, lines 499-506: what the
\* caller does once insertFollowingDoc has returned.
AfterInsertFollowingDoc(r) ==
    Return(r, "ok",
           IF IsRemote(r.f) /\ IsLocal(r.e)
           THEN <<Delivery("Accept", r.f, r.f, r.e)>> ELSE <<>>,
           IF r.op = "acceptFollowRequest" THEN {<<"meUpdated", r.e>>} ELSE {})

\* The call of insertFollowingDoc: the self-follow guard of line 177.
EnterInsertFollowingDoc(r) ==
    IF r.f = OwnerOf[r.e]
    THEN AfterInsertFollowingDoc(r)
    ELSE GoOn([r EXCEPT !.dup = FALSE], "ifd_insert")

\* lines 181-193: the insert, and the duplicate-key handler
IfdInsert(r) ==
    /\ r.pc = "ifd_insert"
    /\ IF <<r.f, r.e>> \in followRequests
       THEN /\ Step(r, IF IsRemote(r.f)
                       THEN GoOn([r EXCEPT !.dup = TRUE], "ifd_find")
                       ELSE Return(r, "duplicate", <<>>, {}), Gone)
            /\ UNCHANGED followRequests
       ELSE /\ followRequests' = followRequests \cup {<<r.f, r.e>>}
            /\ Step(r, GoOn(r, "ifd_find"), Gone)
    /\ UNCHANGED <<followings, blockings, moved, followingCount, followersCount, calls>>

\* lines 212-219, after the request lookup and delete
IfdAfterRequest(r) ==
    IF r.dup
    THEN AfterInsertFollowingDoc(r)
    ELSE [GoOn(r, "ifd_loadUsers") EXCEPT !.pub = {<<"follow", r.f, r.e>>}]

\* lines 195-200: the lookup of the request row of the pair
IfdFind(r) ==
    /\ r.pc = "ifd_find"
    /\ Step(r, IF <<r.f, r.e>> \in followRequests
               THEN GoOn(r, "ifd_delete")
               ELSE IfdAfterRequest(r), Gone)
    /\ UNCHANGED <<followRequests, followings, blockings, moved, followingCount,
                   followersCount, calls>>

\* Variant of IfdDelete that stores the Following edge of the pair along with
\* deleting the request row.
IfdDeleteStoringEdge(r) ==
    /\ r.pc = "ifd_delete"
    /\ followRequests' = followRequests \ {<<r.f, r.e>>}
    /\ followings' = followings \cup {<<r.f, r.e>>}
    /\ Step(r, IfdAfterRequest(r), Gone)
    /\ UNCHANGED <<blockings, moved, followingCount, followersCount, calls>>

\* lines 201-204: the request row is deleted
IfdDelete(r) ==
    /\ r.pc = "ifd_delete"
    /\ followRequests' = followRequests \ {<<r.f, r.e>>}
    /\ Step(r, IfdAfterRequest(r), Gone)
    /\ UNCHANGED <<followings, blockings, moved, followingCount, followersCount, calls>>

\* lines 216-219, then the return to the caller
IfdLoadUsers(r) ==
    /\ r.pc = "ifd_loadUsers"
    /\ Step(r, AfterInsertFollowingDoc(r), Gone)
    /\ UNCHANGED <<followRequests, followings, blockings, moved, followingCount,
                   followersCount, calls>>

\* ----------------------------------------------------- createFollowRequest
\* line 397: the self-request guard at the call
EnterCreateFollowRequest(r) ==
    IF r.f = r.e THEN Return(r, "ok", <<>>, {}) ELSE GoOn(r, "cfr_check")

StartCreateFollowRequest(f, e) ==
    /\ CanStart
    /\ Step(Gone, EnterCreateFollowRequest(NewCall("createFollowRequest", "cfr_check", f, e)), Gone)
    /\ calls' = calls + 1
    /\ UNCHANGED <<followRequests, followings, blockings, moved, followingCount,
                   followersCount>>

\* Variant of CfrCheckBlocking that lets a remote follower through a block,
\* as follow does at lines 99-107.
CfrCheckBlockingRemotePasses(r) ==
    LET blocking == checkBlocked(r.f, r.e)
        blocked == checkBlocked(r.e, r.f)
    IN
    /\ r.pc = "cfr_check"
    /\ Step(r, IF IsRemote(r.f) THEN GoOn(r, "cfr_insert")
               ELSE IF blocking THEN Return(r, "Error:blocking", <<>>, {})
               ELSE IF blocked THEN Return(r, "Error:blocked", <<>>, {})
               ELSE GoOn(r, "cfr_insert"), Gone)
    /\ UNCHANGED <<followRequests, followings, blockings, moved, followingCount,
                   followersCount, calls>>

\* lines 399-406: both directions are read, a block raises a plain Error
CfrCheckBlocking(r) ==
    LET blocking == checkBlocked(r.f, r.e)
        blocked == checkBlocked(r.e, r.f)
    IN
    /\ r.pc = "cfr_check"
    /\ Step(r, IF blocking THEN Return(r, "Error:blocking", <<>>, {})
               ELSE IF blocked THEN Return(r, "Error:blocked", <<>>, {})
               ELSE GoOn(r, "cfr_insert"), Gone)
    /\ UNCHANGED <<followRequests, followings, blockings, moved, followingCount,
                   followersCount, calls>>

\* lines 408-422: the insert; a second row for the pair violates the unique index
CfrInsert(r) ==
    /\ r.pc = "cfr_insert"
    /\ IF <<r.f, r.e>> \in followRequests
       THEN /\ Step(r, Return(r, "duplicate", <<>>, {}), Gone)
            /\ UNCHANGED followRequests
       ELSE /\ followRequests' = followRequests \cup {<<r.f, r.e>>}
            /\ Step(r, GoOn(r, "cfr_findOne"), Gone)
    /\ UNCHANGED <<followings, blockings, moved, followingCount, followersCount, calls>>

\* line 422 (findOneByOrFail of the inserted row), then lines 424-442
CfrFindOne(r) ==
    /\ r.pc = "cfr_findOne"
    /\ Step(r, IF <<r.f, r.e>> \in followRequests
               THEN Return(r, "ok",
                      IF IsLocal(r.f) /\ IsRemote(r.e)
                      THEN <<Delivery("Follow", r.e, r.f, r.e)>> ELSE <<>>,
                      IF IsLocal(r.e)
                      THEN {<<"receiveFollowRequest", r.e, r.f>>, <<"meUpdated", r.e>>}
                      ELSE {})
               ELSE Return(r, "EntityNotFound", <<>>, {}), Gone)
    /\ UNCHANGED <<followRequests, followings, blockings, moved, followingCount,
                   followersCount, calls>>

\* ------------------------------------------------------------------ follow
\* Variant of FollowFinal that never asks for approval (line 161 always).
FollowFinalWithoutRequest(r) == EnterInsertFollowingDoc(r)

\* lines 155-161: request or edge
FollowFinal(r) ==
    IF ~r.auto THEN EnterCreateFollowRequest(r) ELSE EnterInsertFollowingDoc(r)

\* lines 141-153
FollowAfterFollowed(r) ==
    IF isLocked[r.e] /\ ~r.auto THEN GoOn(r, "fol_validate") ELSE FollowFinal(r)

\* lines 131-139
FollowAfterFollowing(r) ==
    IF ~r.auto /\ IsLocal(r.e) /\ autoAcceptFollowed[r.e]
    THEN GoOn(r, "fol_findFollowed")
    ELSE FollowAfterFollowed(r)

\* line 119: whether the follow needs the followee's approval
NeedsApproval(f, e) ==
    \/ isLocked[e]
    \/ (carefulBot[e] /\ isBot[f])
    \/ (IsLocal(f) /\ IsRemote(e))

\* lines 113-126 and 161: after the blocking checks
FollowDecide(r) ==
    IF NeedsApproval(r.f, r.e)
    THEN GoOn([r EXCEPT !.auto = FALSE], "fol_findFollowing")
    ELSE EnterInsertFollowingDoc(r)

\* lines 87-91
StartFollow(f, e) ==
    /\ CanStart
    /\ Step(Gone, GoOn(NewCall("follow", "fol_check", f, e), "fol_check"), Gone)
    /\ calls' = calls + 1
    /\ UNCHANGED <<followRequests, followings, blockings, moved, followingCount,
                   followersCount>>

\* Variant of FollowBlockingOutcome that tests `blocked` before `blocking`
\* on the local path (lines 109 and 110 swapped).
FollowBlockingOutcomeBlockedFirst(r, blocking, blocked) ==
    IF IsRemote(r.f) /\ blocked
    THEN Return(r, "ok", <<Delivery("Reject", r.f, r.f, r.e)>>, {})
    ELSE IF IsRemote(r.f) /\ blocking
    THEN GoOn(r, "fol_unblock")
    ELSE IF blocked THEN Return(r, "blocked", <<>>, {})
    ELSE IF blocking THEN Return(r, "blocking", <<>>, {})
    ELSE FollowDecide(r)

\* Variant of FollowBlockingOutcome without the remote branch of lines
\* 99-103: a blocked remote follower is refused like a local one.
FollowBlockingOutcomeRemoteRaises(r, blocking, blocked) ==
    IF IsRemote(r.f) /\ blocking /\ ~blocked
    THEN GoOn(r, "fol_unblock")
    ELSE IF blocking THEN Return(r, "blocking", <<>>, {})
    ELSE IF blocked THEN Return(r, "blocked", <<>>, {})
    ELSE FollowDecide(r)

\* lines 93-111
FollowBlockingOutcome(r, blocking, blocked) ==
    IF IsRemote(r.f) /\ blocked
    THEN Return(r, "ok", <<Delivery("Reject", r.f, r.f, r.e)>>, {})
    ELSE IF IsRemote(r.f) /\ blocking
    THEN GoOn(r, "fol_unblock")
    ELSE IF blocking THEN Return(r, "blocking", <<>>, {})
    ELSE IF blocked THEN Return(r, "blocked", <<>>, {})
    ELSE FollowDecide(r)

FollowCheckBlocking(r) ==
    /\ r.pc = "fol_check"
    /\ Step(r, FollowBlockingOutcome(r, checkBlocked(r.f, r.e), checkBlocked(r.e, r.f)), Gone)
    /\ UNCHANGED <<followRequests, followings, blockings, moved, followingCount,
                   followersCount, calls>>

\* line 106
FollowUnblock(r) ==
    /\ r.pc = "fol_unblock"
    /\ blockings' = blockings \ {<<r.f, r.e>>}
    /\ Step(r, FollowDecide(r), Gone)
    /\ UNCHANGED <<followRequests, followings, moved, followingCount,
                   followersCount, calls>>

\* lines 123-129
FollowFindFollowing(r) ==
    /\ r.pc = "fol_findFollowing"
    /\ Step(r, FollowAfterFollowing([r EXCEPT !.auto = <<r.f, r.e>> \in followings]), Gone)
    /\ UNCHANGED <<followRequests, followings, blockings, moved, followingCount,
                   followersCount, calls>>

\* lines 133-138
FollowFindFollowed(r) ==
    /\ r.pc = "fol_findFollowed"
    /\ Step(r, FollowAfterFollowed([r EXCEPT !.auto = <<r.e, r.f>> \in followings]), Gone)
    /\ UNCHANGED <<followRequests, followings, blockings, moved, followingCount,
                   followersCount, calls>>

\* lines 143-152
FollowValidateAlsoKnownAs(r) ==
    /\ r.pc = "fol_validate"
    /\ Step(r, FollowFinal([r EXCEPT !.auto = validateAlsoKnownAs(r.f, r.e)]), Gone)
    /\ UNCHANGED <<followRequests, followings, blockings, moved, followingCount,
                   followersCount, calls>>

\* ------------------------------------------------------ decrementFollowing
\* The first step of decrementFollowing(follower, followee) for the user
\* entities loaded with the row (mF, mE: their movedToUri was set): line 323
\* and the `continue` of line 353.
DecStart(mF, mE) ==
    IF ~mF /\ ~mE THEN "dec_fast"
    ELSE IF ~mF THEN "dec_F_followees"
    ELSE IF ~mE THEN "dec_E_followees"
    ELSE "idle"

\* The caller does not await decrementFollowing: it runs as a task.
DecTask(f, e, mF, mE) ==
    IF DecStart(mF, mE) = "idle" THEN Gone
    ELSE [Gone EXCEPT !.op = "decrementFollowing", !.pc = DecStart(mF, mE),
                      !.f = f, !.e = e, !.mF = mF, !.mE = mE]

\* lines 325-328: both counters are decremented by one
DecFast(r) ==
    /\ r.pc = "dec_fast"
    /\ followingCount' = [followingCount EXCEPT ![r.f] = @ - 1]
    /\ followersCount' = [followersCount EXCEPT ![r.e] = @ - 1]
    /\ Step(r, Return(r, "ok", <<>>, {}), Gone)
    /\ UNCHANGED <<followRequests, followings, blockings, moved, calls>>

DecUser(r) == IF r.pc \in {"dec_F_followees", "dec_F_followers", "dec_F_update"} THEN r.f ELSE r.e

\* lines 355-365: edges of the user whose followee has not moved
nonMovedFollowees(u) == Cardinality({p \in followings : p[1] = u /\ p[2] \notin moved})

\* lines 366-376: edges to the user whose follower has not moved
nonMovedFollowers(u) == Cardinality({p \in followings : p[2] = u /\ p[1] \notin moved})

DecCountFollowees(r) ==
    /\ r.pc \in {"dec_F_followees", "dec_E_followees"}
    /\ Step(r, GoOn([r EXCEPT !.n1 = nonMovedFollowees(DecUser(r))],
                    IF r.pc = "dec_F_followees" THEN "dec_F_followers" ELSE "dec_E_followers"),
            Gone)
    /\ UNCHANGED <<followRequests, followings, blockings, moved, followingCount,
                   followersCount, calls>>

DecCountFollowers(r) ==
    /\ r.pc \in {"dec_F_followers", "dec_E_followers"}
    /\ Step(r, GoOn([r EXCEPT !.n2 = nonMovedFollowers(DecUser(r))],
                    IF r.pc = "dec_F_followers" THEN "dec_F_update" ELSE "dec_E_update"),
            Gone)
    /\ UNCHANGED <<followRequests, followings, blockings, moved, followingCount,
                   followersCount, calls>>

\* lines 377-380: the stored counters are overwritten
DecUpdate(r) ==
    /\ r.pc \in {"dec_F_update", "dec_E_update"}
    /\ followingCount' = [followingCount EXCEPT ![DecUser(r)] = r.n1]
    /\ followersCount' = [followersCount EXCEPT ![DecUser(r)] = r.n2]
    /\ Step(r, IF r.pc = "dec_F_update" /\ ~r.mE
               THEN GoOn([r EXCEPT !.n1 = 0, !.n2 = 0], "dec_E_followees")
               ELSE Return(r, "ok", <<>>, {}), Gone)
    /\ UNCHANGED <<followRequests, followings, blockings, moved, calls>>

\* ---------------------------------------------------------------- unfollow
StartUnfollow(f, e) ==
    /\ CanStart
    /\ Step(Gone, GoOn(NewCall("unfollow", "unf_find", f, e), "unf_find"), Gone)
    /\ calls' = calls + 1
    /\ UNCHANGED <<followRequests, followings, blockings, moved, followingCount,
                   followersCount>>

\* lines 265-279: the row is looked up in channelFollowRequestsRepository,
\* with its follower and followee joined
UnfollowFind(r) ==
    /\ r.pc = "unf_find"
    /\ Step(r, IF <<r.f, r.e>> \in followRequests
               THEN GoOn([r EXCEPT !.mF = r.f \in moved, !.mE = r.e \in moved], "unf_delete")
               ELSE Return(r, "ok", <<>>, {}), Gone)
    /\ UNCHANGED <<followRequests, followings, blockings, moved, followingCount,
                   followersCount, calls>>

\* lines 303-312
UnfollowDeliveries(f, e) ==
    (IF IsLocal(f) /\ IsRemote(e) THEN <<Delivery("Undo", e, f, e)>> ELSE <<>>)
    \o (IF IsLocal(e) /\ IsRemote(f) THEN <<Delivery("Reject", f, f, e)>> ELSE <<>>)

\* line 281.  followingsRepository.delete(following.id) deletes by primary
\* key, and `following` is the row of the request store found at line 265:
\* ids are minted by idService.genId, one per row, so no row of the Following
\* store carries that id and the delete removes nothing.
DeleteFollowingById(r) == followings

\* lines 281-312
UnfollowDelete(r) ==
    /\ r.pc = "unf_delete"
    /\ followings' = DeleteFollowingById(r)
    /\ Step(r, Return(r, "ok", UnfollowDeliveries(r.f, r.e),
                      {<<"unfollow", r.f, r.e>>}
                        \cup (IF IsLocal(r.f) THEN {<<"unfollow:main", r.f, r.e>>} ELSE {})),
            DecTask(r.f, r.e, r.mF, r.mE))
    /\ UNCHANGED <<followRequests, blockings, moved, followingCount, followersCount, calls>>

\* ----------------------------------------------------- cancelFollowRequest
\* Variant of StartCancelFollowRequest without the delivery of lines 454-460.
StartCancelFollowRequestSilent(e, f) ==
    /\ CanStart
    /\ Step(Gone, GoOn(NewCall("cancelFollowRequest", "can_find", f, e), "can_find"), Gone)
    /\ calls' = calls + 1
    /\ UNCHANGED <<followRequests, followings, blockings, moved, followingCount,
                   followersCount>>

\* lines 454-460 run at the call, before the first await
StartCancelFollowRequest(e, f) ==
    /\ CanStart
    /\ Step(Gone, [GoOn(NewCall("cancelFollowRequest", "can_find", f, e), "can_find")
                    EXCEPT !.out = IF IsRemote(e) /\ IsLocal(f)
                                   THEN <<Delivery("Undo", e, f, e)>> ELSE <<>>], Gone)
    /\ calls' = calls + 1
    /\ UNCHANGED <<followRequests, followings, blockings, moved, followingCount,
                   followersCount>>

\* lines 462-469
CancelFind(r) ==
    /\ r.pc = "can_find"
    /\ Step(r, IF <<r.f, r.e>> \in followRequests
               THEN GoOn(r, "can_delete")
               ELSE Return(r, "notFound", <<>>, {}), Gone)
    /\ UNCHANGED <<followRequests, followings, blockings, moved, followingCount,
                   followersCount, calls>>

\* lines 471-478
CancelDelete(r) ==
    /\ r.pc = "can_delete"
    /\ followRequests' = followRequests \ {<<r.f, r.e>>}
    /\ Step(r, Return(r, "ok", <<>>, {<<"meUpdated", r.e>>}), Gone)
    /\ UNCHANGED <<followings, blockings, moved, followingCount, followersCount, calls>>

\* ----------------------------------------------------- acceptFollowRequest
StartAcceptFollowRequest(e, f) ==
    /\ CanStart
    /\ Step(Gone, GoOn(NewCall("acceptFollowRequest", "acc_find", f, e), "acc_find"), Gone)
    /\ calls' = calls + 1
    /\ UNCHANGED <<followRequests, followings, blockings, moved, followingCount,
                   followersCount>>

\* Variant of AcceptFind without the test of lines 493-495.
AcceptFindWithoutTest(r) ==
    /\ r.pc = "acc_find"
    /\ Step(r, EnterInsertFollowingDoc(r), Gone)
    /\ UNCHANGED <<followRequests, followings, blockings, moved, followingCount,
                   followersCount, calls>>

\* lines 488-497
AcceptFind(r) ==
    /\ r.pc = "acc_find"
    /\ Step(r, IF <<r.f, r.e>> \in followRequests
               THEN EnterInsertFollowingDoc(r)
               ELSE Return(r, "notFound", <<>>, {}), Gone)
    /\ UNCHANGED <<followRequests, followings, blockings, moved, followingCount,
                   followersCount, calls>>

\* ------------------------------------------------- acceptAllFollowRequests
StartAcceptAllFollowRequests(e) ==
    /\ CanStart
    /\ Step(Gone, GoOn(NewCall("acceptAllFollowRequests", "aa_findBy", None, e), "aa_findBy"), Gone)
    /\ calls' = calls + 1
    /\ UNCHANGED <<followRequests, followings, blockings, moved, followingCount,
                   followersCount>>

\* lines 515-517
AcceptAllFindBy(r) ==
    LET found == {f \in Users : <<f, r.e>> \in followRequests} IN
    /\ r.pc = "aa_findBy"
    /\ Step(r, IF found = {} THEN Return(r, "ok", <<>>, {})
               ELSE GoOn([r EXCEPT !.pend = found], "aa_loop"), Gone)
    /\ UNCHANGED <<followRequests, followings, blockings, moved, followingCount,
                   followersCount, calls>>

\* line 521: acceptFollowRequest is called and not awaited
AcceptTask(e, f) ==
    [Gone EXCEPT !.op = "acceptFollowRequest", !.pc = "acc_find", !.f = f, !.e = e]

\* lines 519-522: the follower is loaded, then its request is accepted
AcceptAllLoop(r) ==
    /\ r.pc = "aa_loop"
    /\ \E x \in r.pend :
          Step(r, IF r.pend = {x}
                  THEN Return([r EXCEPT !.pend = {}], "ok", <<>>, {})
                  ELSE GoOn([r EXCEPT !.pend = r.pend \ {x}], "aa_loop"),
               AcceptTask(r.e, x))
    /\ UNCHANGED <<followRequests, followings, blockings, moved, followingCount,
                   followersCount, calls>>

\* --------------------------------------- rejectFollowRequest / rejectFollow
\* lines 532-534 and 544-546: publishUnfollow for a local follower
PublishUnfollow(f, e) ==
    IF IsLocal(f) THEN {<<"unfollow:main", f, e>>} ELSE {}

StartRejectFollowRequest(e, f) ==
    /\ CanStart
    /\ Step(Gone, GoOn(NewCall("rejectFollowRequest", "rfr_find", f, e), "rfr_find"), Gone)
    /\ calls' = calls + 1
    /\ UNCHANGED <<followRequests, followings, blockings, moved, followingCount,
                   followersCount>>

\* lines 553-559, and lines 532-534 when no request is found
RemoveFollowRequestFind(r) ==
    /\ r.pc = "rfr_find"
    /\ Step(r, IF <<r.f, r.e>> \in followRequests
               THEN GoOn(r, "rfr_delete")
               ELSE Return(r, "ok", <<>>, PublishUnfollow(r.f, r.e)), Gone)
    /\ UNCHANGED <<followRequests, followings, blockings, moved, followingCount,
                   followersCount, calls>>

\* line 561, then lines 532-534
RemoveFollowRequestDelete(r) ==
    /\ r.pc = "rfr_delete"
    /\ followRequests' = followRequests \ {<<r.f, r.e>>}
    /\ Step(r, Return(r, "ok", <<>>, PublishUnfollow(r.f, r.e)), Gone)
    /\ UNCHANGED <<followings, blockings, moved, followingCount, followersCount, calls>>

StartRejectFollow(e, f) ==
    /\ CanStart
    /\ Step(Gone, GoOn(NewCall("rejectFollow", "rmf_find", f, e), "rmf_find"), Gone)
    /\ calls' = calls + 1
    /\ UNCHANGED <<followRequests, followings, blockings, moved, followingCount,
                   followersCount>>

\* lines 569-580, and lines 544-546 when no edge is found
RemoveFollowFind(r) ==
    /\ r.pc = "rmf_find"
    /\ Step(r, IF <<r.f, r.e>> \in followings
               THEN GoOn([r EXCEPT !.mF = r.f \in moved, !.mE = r.e \in moved], "rmf_delete")
               ELSE Return(r, "ok", <<>>, PublishUnfollow(r.f, r.e)), Gone)
    /\ UNCHANGED <<followRequests, followings, blockings, moved, followingCount,
                   followersCount, calls>>

\* lines 582-584, then lines 544-546
RemoveFollowDelete(r) ==
    /\ r.pc = "rmf_delete"
    /\ followings' = followings \ {<<r.f, r.e>>}
    /\ Step(r, Return(r, "ok", <<>>,
                      PublishUnfollow(r.f, r.e) \cup {<<"unfollow", r.f, r.e>>}),
            DecTask(r.f, r.e, r.mF, r.mE))
    /\ UNCHANGED <<followRequests, blockings, moved, followingCount, followersCount, calls>>

\* ------------------------------------------------------------ the machine
\* The calls of the API and of the inbox, all about `target`, made in any
\* interleaving, and the steps of the calls and tasks in flight.
Next ==
    \/ \E f \in Users :
          \/ StartFollow(f, target)
          \/ StartUnfollow(f, target)
          \/ StartCreateFollowRequest(f, target)
          \/ StartCancelFollowRequest(target, f)
          \/ StartAcceptFollowRequest(target, f)
          \/ StartRejectFollowRequest(target, f)
          \/ StartRejectFollow(target, f)
          \/ Block(f, target)
          \/ Block(target, f)
    \/ StartAcceptAllFollowRequests(target)
    \/ \E r \in Running : FollowCheckBlocking(r)
    \/ \E r \in Running : FollowUnblock(r)
    \/ \E r \in Running : FollowFindFollowing(r)
    \/ \E r \in Running : FollowFindFollowed(r)
    \/ \E r \in Running : FollowValidateAlsoKnownAs(r)
    \/ \E r \in Running : IfdInsert(r)
    \/ \E r \in Running : IfdFind(r)
    \/ \E r \in Running : IfdDelete(r)
    \/ \E r \in Running : IfdLoadUsers(r)
    \/ \E r \in Running : CfrCheckBlocking(r)
    \/ \E r \in Running : CfrInsert(r)
    \/ \E r \in Running : CfrFindOne(r)
    \/ \E r \in Running : UnfollowFind(r)
    \/ \E r \in Running : UnfollowDelete(r)
    \/ \E r \in Running : DecFast(r)
    \/ \E r \in Running : DecCountFollowees(r)
    \/ \E r \in Running : DecCountFollowers(r)
    \/ \E r \in Running : DecUpdate(r)
    \/ \E r \in Running : CancelFind(r)
    \/ \E r \in Running : CancelDelete(r)
    \/ \E r \in Running : AcceptFind(r)
    \/ \E r \in Running : AcceptAllFindBy(r)
    \/ \E r \in Running : AcceptAllLoop(r)
    \/ \E r \in Running : RemoveFollowRequestFind(r)
    \/ \E r \in Running : RemoveFollowRequestDelete(r)
    \/ \E r \in Running : RemoveFollowFind(r)
    \/ \E r \in Running : RemoveFollowDelete(r)
    \/ \E a \in Movable : Move(a)

Spec == Init /\ [][Next]_vars

\* Calls made one at a time: a call is made once every earlier call and the
\* tasks it started have finished.
Quiet == threads = EmptyBag

NextSeq ==
    \/ \E f \in Users :
          \/ Quiet /\ StartFollow(f, target)
          \/ Quiet /\ StartUnfollow(f, target)
          \/ Quiet /\ StartCreateFollowRequest(f, target)
          \/ Quiet /\ StartCancelFollowRequest(target, f)
          \/ Quiet /\ StartAcceptFollowRequest(target, f)
          \/ Quiet /\ StartRejectFollowRequest(target, f)
          \/ Quiet /\ StartRejectFollow(target, f)
          \/ Quiet /\ Block(f, target)
          \/ Quiet /\ Block(target, f)
    \/ Quiet /\ StartAcceptAllFollowRequests(target)
    \/ \E r \in Running : FollowCheckBlocking(r)
    \/ \E r \in Running : FollowUnblock(r)
    \/ \E r \in Running : FollowFindFollowing(r)
    \/ \E r \in Running : FollowFindFollowed(r)
    \/ \E r \in Running : FollowValidateAlsoKnownAs(r)
    \/ \E r \in Running : IfdInsert(r)
    \/ \E r \in Running : IfdFind(r)
    \/ \E r \in Running : IfdDelete(r)
    \/ \E r \in Running : IfdLoadUsers(r)
    \/ \E r \in Running : CfrCheckBlocking(r)
    \/ \E r \in Running : CfrInsert(r)
    \/ \E r \in Running : CfrFindOne(r)
    \/ \E r \in Running : UnfollowFind(r)
    \/ \E r \in Running : UnfollowDelete(r)
    \/ \E r \in Running : DecFast(r)
    \/ \E r \in Running : DecCountFollowees(r)
    \/ \E r \in Running : DecCountFollowers(r)
    \/ \E r \in Running : DecUpdate(r)
    \/ \E r \in Running : CancelFind(r)
    \/ \E r \in Running : CancelDelete(r)
    \/ \E r \in Running : AcceptFind(r)
    \/ \E r \in Running : AcceptAllFindBy(r)
    \/ \E r \in Running : AcceptAllLoop(r)
    \/ \E r \in Running : RemoveFollowRequestFind(r)
    \/ \E r \in Running : RemoveFollowRequestDelete(r)
    \/ \E r \in Running : RemoveFollowFind(r)
    \/ \E r \in Running : RemoveFollowDelete(r)
    \/ \E a \in Movable : Move(a)

SpecSeq == Init /\ [][NextSeq]_vars

\* Only follow and unfollow, one call at a time, from a database with no
\* pending request and no migrated actor.
InitFollowUnfollow == Init /\ followRequests = {}

NextFollowUnfollow ==
    \/ \E f \in Users :
          \/ Quiet /\ StartFollow(f, target)
          \/ Quiet /\ StartUnfollow(f, target)
    \/ \E r \in Running : FollowCheckBlocking(r)
    \/ \E r \in Running : FollowUnblock(r)
    \/ \E r \in Running : FollowFindFollowing(r)
    \/ \E r \in Running : FollowFindFollowed(r)
    \/ \E r \in Running : FollowValidateAlsoKnownAs(r)
    \/ \E r \in Running : IfdInsert(r)
    \/ \E r \in Running : IfdFind(r)
    \/ \E r \in Running : IfdDelete(r)
    \/ \E r \in Running : IfdLoadUsers(r)
    \/ \E r \in Running : CfrCheckBlocking(r)
    \/ \E r \in Running : CfrInsert(r)
    \/ \E r \in Running : CfrFindOne(r)
    \/ \E r \in Running : UnfollowFind(r)
    \/ \E r \in Running : UnfollowDelete(r)
    \/ \E r \in Running : DecFast(r)

SpecFollowUnfollow == InitFollowUnfollow /\ [][NextFollowUnfollow]_vars

\* Removals only: unfollow and rejectFollow calls in any interleaving, with
\* the decrements they spawn; no actor has moved.
NextRemovals ==
    \/ \E f \in Users :
          \/ StartUnfollow(f, target)
          \/ StartRejectFollow(target, f)
    \/ \E r \in Running : UnfollowFind(r)
    \/ \E r \in Running : UnfollowDelete(r)
    \/ \E r \in Running : RemoveFollowFind(r)
    \/ \E r \in Running : RemoveFollowDelete(r)
    \/ \E r \in Running : DecFast(r)

SpecRemovals == Init /\ [][NextRemovals]_vars

\* Acceptances and cancellations only: acceptFollowRequest and
\* cancelFollowRequest calls in any interleaving.
NextAcceptCancel ==
    \/ \E f \in Users :
          \/ StartAcceptFollowRequest(target, f)
          \/ StartCancelFollowRequest(target, f)
    \/ \E r \in Running : AcceptFind(r)
    \/ \E r \in Running : IfdInsert(r)
    \/ \E r \in Running : IfdFind(r)
    \/ \E r \in Running : IfdDelete(r)
    \/ \E r \in Running : IfdLoadUsers(r)
    \/ \E r \in Running : CancelFind(r)
    \/ \E r \in Running : CancelDelete(r)

SpecAcceptCancel == Init /\ [][NextAcceptCancel]_vars

\* ============================================================== properties
\* A call of operation o has just returned to its caller.
JustReturned(o) == ret.top /\ ret.op = o
RetPair == <<ret.f, ret.e>>
StoresAsBefore == followRequests = ret.pre.requests /\ followings = ret.pre.followings
CountersAsBefore ==
    /\ followingCount = ret.pre.followingCount
    /\ followersCount = ret.pre.followersCount

\* C1: once every call made has finished, no ordered pair (follower,
\* followee) has both a stored FollowRequest and a stored Following edge.
C1_NoPairWithRequestAndEdge ==
    Quiet => followRequests \cap followings = {}

\* C2 (as stated): follow(A, B) by a local A with a block in either direction
\* fails with detail 'blocking' when A blocks B and with detail 'blocked'
\* when B blocks A, and the stored requests and edges are as before the call.
C2_BlockedLocalFollow ==
    (JustReturned("follow") /\ IsLocal(ret.f)
        /\ (checkBlocked(ret.f, ret.e) \/ checkBlocked(ret.e, ret.f)))
    => /\ checkBlocked(ret.f, ret.e) => ret.res = "blocking"
       /\ checkBlocked(ret.e, ret.f) => ret.res = "blocked"
       /\ StoresAsBefore

\* C2 (amended): follow(A, B) by a local A with a block in either direction
\* fails with detail 'blocking' when A blocks B, whether or not B blocks A,
\* and with detail 'blocked' when only B blocks A; the stored requests and
\* edges are as before the call.
C2_BlockedLocalFollowFirstDetail ==
    (JustReturned("follow") /\ IsLocal(ret.f)
        /\ (checkBlocked(ret.f, ret.e) \/ checkBlocked(ret.e, ret.f)))
    => /\ ret.res = (IF checkBlocked(ret.f, ret.e) THEN "blocking" ELSE "blocked")
       /\ StoresAsBefore

C2_Witness ==
    /\ JustReturned("follow") /\ IsLocal(ret.f)
    /\ checkBlocked(ret.e, ret.f) /\ ~checkBlocked(ret.f, ret.e)
    /\ ret.res = "blocked"

\* C3: when the follower R is remote and the followee L blocks R,
\* follow(R, L) enqueues exactly one delivery, a Reject to R's inbox, returns
\* without an error, and stores neither a request nor an edge.
C3_RemoteBlockedGetsReject ==
    (JustReturned("follow") /\ IsRemote(ret.f) /\ checkBlocked(ret.e, ret.f))
    => /\ ret.res = "ok"
       /\ out = <<Delivery("Reject", ret.f, ret.f, ret.e)>>
       /\ StoresAsBefore

C3_Witness ==
    /\ JustReturned("follow") /\ IsRemote(ret.f) /\ checkBlocked(ret.e, ret.f)
    /\ ret.res = "ok" /\ Len(out) = 1

\* C4: for a remote follower A and an unlocked followee B, A not the owner
\* of B and no block between them, when a follow(A, B) has returned and no other call is in
\* flight, the call raised no error and the edge A→B is stored.
C4_RemoteFollowStoresEdge ==
    (JustReturned("follow") /\ IsRemote(ret.f) /\ ~isLocked[ret.e] /\ Quiet
        /\ ret.f # OwnerOf[ret.e]
        /\ ~checkBlocked(ret.f, ret.e) /\ ~checkBlocked(ret.e, ret.f))
    => /\ ret.res = "ok"
       /\ RetPair \in followings

\* C5: when acceptFollowRequest(followee, follower) returns successfully,
\* called with a FollowRequest of the pair stored (the follower not the
\* followee's owner), no FollowRequest of the
\* pair is stored and the edge follower→followee is.
C5_AcceptTurnsRequestIntoEdge ==
    (JustReturned("acceptFollowRequest") /\ ret.res = "ok"
        /\ RetPair \in ret.pre.requests /\ ret.f # OwnerOf[ret.e])
    => /\ RetPair \notin followRequests
       /\ RetPair \in followings

\* C6: when rejectFollow(followee, follower) returns, called with the edge
\* follower→followee stored, neither the edge nor a FollowRequest of the pair
\* is stored.
C6_RejectFollowLeavesNothing ==
    (JustReturned("rejectFollow") /\ RetPair \in ret.pre.followings)
    => /\ RetPair \notin followings
       /\ RetPair \notin followRequests

\* C7: unfollow(follower, followee) called with no edge follower→followee
\* stored returns without an error, leaves edges, requests and counters as
\* they were, enqueues no delivery and starts no counter update.
C7_UnfollowWithoutEdgeIsNoOp ==
    (JustReturned("unfollow") /\ RetPair \notin ret.pre.followings)
    => /\ ret.res = "ok"
       /\ StoresAsBefore
       /\ CountersAsBefore
       /\ out = <<>>
       /\ Quiet

\* C8: after completed follow and unfollow calls with no migrated actor,
\* every actor's followersCount is the number of stored edges to it.
C8_FollowersCountIsEdgeCount ==
    (Quiet /\ moved = {})
    => \A a \in Actors : followersCount[a] = Cardinality(EdgesTo(a))

\* C9: an unfollow called with the edge stored and an endpoint migrated
\* removes the edge, and the values a recount is about to write to an
\* endpoint's counters are the counts of the stored edges from and to it.
C9_UnfollowOfMigratedRecounts ==
    /\ (JustReturned("unfollow") /\ RetPair \in ret.pre.followings
            /\ {ret.f, ret.e} \cap moved # {})
       => RetPair \notin followings
    /\ \A t \in Running :
          t.pc \in {"dec_F_update", "dec_E_update"}
          => /\ t.n1 = Cardinality(EdgesFrom(DecUser(t)))
             /\ t.n2 = Cardinality(EdgesTo(DecUser(t)))

\* C10: for a local follower F and a locked followee L, distinct, with no
\* block, no request or edge between them and no auto-accept condition,
\* follow(F, L) returns with exactly one more FollowRequest stored, F→L, the
\* stored edges as before and all counters as before.
NoAutoAccept(f, e, edges) ==
    /\ <<f, e>> \notin edges
    /\ ~(IsLocal(e) /\ autoAcceptFollowed[e] /\ <<e, f>> \in edges)
    /\ \A old \in AlsoKnownAs[f] : <<old, e>> \notin edges

C10_LockedFolloweeGetsRequest ==
    (JustReturned("follow") /\ IsLocal(ret.f) /\ isLocked[ret.e] /\ ret.f # ret.e
        /\ ~checkBlocked(ret.f, ret.e) /\ ~checkBlocked(ret.e, ret.f)
        /\ {RetPair, Reverse(RetPair)} \cap ret.pre.requests = {}
        /\ NoAutoAccept(ret.f, ret.e, ret.pre.followings))
    => /\ ret.res = "ok"
       /\ followRequests = ret.pre.requests \cup {RetPair}
       /\ followings = ret.pre.followings
       /\ CountersAsBefore

C10_Witness ==
    /\ JustReturned("follow") /\ IsLocal(ret.f) /\ isLocked[ret.e] /\ ret.f # ret.e
    /\ RetPair \notin ret.pre.requests
    /\ NoAutoAccept(ret.f, ret.e, ret.pre.followings)
    /\ ret.res = "ok"
    /\ RetPair \in followRequests

NoBlockBetween(a, b) == ~checkBlocked(a, b) /\ ~checkBlocked(b, a)
NoRelationBefore(a, b) ==
    {<<a, b>>, <<b, a>>} \cap (ret.pre.requests \cup ret.pre.followings) = {}

\* C11: for a local follower F and a local unlocked followee U, F not the
\* owner of U, with no approval condition, no block and no request or edge
\* between them, follow(F, U) returns with the edge F→U stored, the stored
\* requests as before, and F's followingCount and U's followersCount each
\* one more than before.
C11_UnlockedFolloweeGetsEdge ==
    (JustReturned("follow") /\ IsLocal(ret.f) /\ IsLocal(ret.e)
        /\ ~isLocked[ret.e] /\ ~NeedsApproval(ret.f, ret.e)
        /\ ret.f # OwnerOf[ret.e]
        /\ NoBlockBetween(ret.f, ret.e) /\ NoRelationBefore(ret.f, ret.e))
    => /\ ret.res = "ok"
       /\ followings = ret.pre.followings \cup {RetPair}
       /\ followRequests = ret.pre.requests
       /\ followingCount[ret.f] = ret.pre.followingCount[ret.f] + 1
       /\ followersCount[ret.e] = ret.pre.followersCount[ret.e] + 1

\* C12: acceptFollowRequest and cancelFollowRequest called for a pair with
\* no stored FollowRequest fail with the request-not-found error, and the
\* stored requests, edges and counters are as before the call.
C12_NoRequestIsNotFound ==
    ((JustReturned("acceptFollowRequest") \/ JustReturned("cancelFollowRequest"))
        /\ RetPair \notin ret.pre.requests)
    => /\ ret.res = "notFound"
       /\ StoresAsBefore
       /\ CountersAsBefore

C12_Witness ==
    /\ JustReturned("acceptFollowRequest")
    /\ RetPair \notin ret.pre.requests
    /\ ret.res = "notFound"

\* Calls made one at a time, and every continuation that is ready to run is
\* eventually run by the event loop.
SpecSeqFair == SpecSeq /\ WF_vars(NextSeq)

\* C13: in acceptAllFollowRequests(followee) the batch call itself returns
\* without an error, and every request that was pending when the call read
\* them, from a follower other than the followee's owner, is eventually
\* accepted (its request removed and its edge stored), unless the acceptance
\* of that very request failed.
InBatch(f) ==
    /\ f # OwnerOf[target]
    /\ \E r \in Running : r.op = "acceptAllFollowRequests" /\ f \in r.pend
Accepted(f) == <<f, target>> \notin followRequests /\ <<f, target>> \in followings
AcceptanceFailed(f) ==
    ret.op = "acceptFollowRequest" /\ ~ret.top /\ ret.f = f /\ ret.res # "ok"

C13_BatchAcceptsTheOthers ==
    /\ [](JustReturned("acceptAllFollowRequests") => ret.res = "ok")
    /\ \A f \in Users : InBatch(f) ~> (Accepted(f) \/ AcceptanceFailed(f))

\* C14: no delivery of a call is enqueued while a store mutation of that
\* call is still to come.
DeliveredFor(r) == \E i \in 1..Len(out) : out[i].f = r.f /\ out[i].e = r.e
WriteToCome(r) ==
    \/ r.pc \in {"ifd_insert", "ifd_delete", "cfr_insert", "can_delete", "unf_delete",
                 "rfr_delete", "rmf_delete"}
    \/ r.pc \in {"can_find", "rfr_find", "ifd_find"} /\ <<r.f, r.e>> \in followRequests
    \/ r.pc = "rmf_find" /\ <<r.f, r.e>> \in followings

C14_DeliveryAfterMutation ==
    \A r \in Running : (r.top /\ DeliveredFor(r)) => ~WriteToCome(r)

\* C15: rejectFollowRequest and rejectFollow called with a local followee
\* and a remote follower (a request or an edge of the pair being stored)
\* enqueue a Reject to the follower's inbox; called
\* with a local follower they publish 'unfollow' to that follower.
C15_RejectInformsTheFollower ==
    (JustReturned("rejectFollowRequest") \/ JustReturned("rejectFollow"))
    => /\ (IsLocal(ret.e) /\ IsRemote(ret.f)
               /\ RetPair \in ret.pre.requests \cup ret.pre.followings)
            => \E i \in 1..Len(out) : out[i] = Delivery("Reject", ret.f, ret.f, ret.e)
       /\ IsLocal(ret.f) => <<"unfollow:main", ret.f, ret.e>> \in pub

\* C16: no stored FollowRequest and no stored Following edge has as its
\* follower the followee itself or the followee's owner, and follow and
\* createFollowRequest on such a pair return without an error with the
\* stores as before.
C16_NoSelfFollow ==
    /\ \A p \in followRequests \cup followings : p[1] # p[2] /\ p[1] # OwnerOf[p[2]]
    /\ ((JustReturned("follow") \/ JustReturned("createFollowRequest"))
            /\ ret.f = OwnerOf[ret.e] /\ NoBlockBetween(ret.f, ret.e))
       => (ret.res = "ok" /\ StoresAsBefore)

\* C17: no step stores a FollowRequest or a Following edge for a pair that
\* has a block in either direction.
NewRows == (followRequests' \cup followings') \ (followRequests \cup followings)

C17_NothingStoredAcrossABlock ==
    [][\A p \in NewRows : NoBlockBetween(p[1], p[2])]_vars

\* C18: when a remote follower R blocks the followee (R not its owner) and
\* the followee does not block R, follow(R, followee) returns with no
\* blocking error, R's block removed, and a FollowRequest or a Following
\* edge R→followee stored.
C18_RemoteFollowUnblocks ==
    (JustReturned("follow") /\ IsRemote(ret.f) /\ ret.f # OwnerOf[ret.e]
        /\ RetPair \in ret.pre.blockings /\ Reverse(RetPair) \notin ret.pre.blockings)
    => /\ ret.res \notin {"blocking", "blocked"}
       /\ RetPair \notin blockings
       /\ RetPair \in followRequests \cup followings

\* C19: when approval is required (no block, follower not the followee's
\* owner, no migration during the call), follow returns with the edge
\* stored and the requests as before exactly when an auto-accept condition
\* held at the call, and otherwise with the request stored and the edges as
\* before.
AutoAcceptCondition(f, e, edges, gone) ==
    \/ <<f, e>> \in edges
    \/ autoAcceptFollowed[e] /\ <<e, f>> \in edges
    \/ isLocked[e] /\ \E old \in AlsoKnownAs[f] \cap gone : <<old, e>> \in edges

C19_AutoAcceptDecision ==
    (JustReturned("follow") /\ NeedsApproval(ret.f, ret.e) /\ ret.f # OwnerOf[ret.e]
        /\ NoBlockBetween(ret.f, ret.e) /\ ret.pre.blockings = blockings
        /\ moved = ret.pre.moved /\ RetPair \notin ret.pre.requests)
    => IF AutoAcceptCondition(ret.f, ret.e, ret.pre.followings, moved)
       THEN RetPair \in followings /\ followRequests = ret.pre.requests
       ELSE RetPair \in followRequests /\ followings = ret.pre.followings

\* C20: follow(F, L) called while the FollowRequest F→L is pending (approval
\* required, no auto-accept condition, no block) returns without an error
\* and leaves the stored requests as they were.
C20_SecondFollowIsAbsorbed ==
    (JustReturned("follow") /\ NeedsApproval(ret.f, ret.e) /\ ret.f # OwnerOf[ret.e]
        /\ NoBlockBetween(ret.f, ret.e) /\ ret.pre.blockings = blockings
        /\ moved = ret.pre.moved /\ RetPair \in ret.pre.requests
        /\ ~AutoAcceptCondition(ret.f, ret.e, ret.pre.followings, moved))
    => /\ ret.res = "ok"
       /\ followRequests = ret.pre.requests

\* C21: cancelFollowRequest(followee, follower) with a remote followee and a
\* local follower enqueues one Undo to the followee's inbox in the step in
\* which it is called, before the request is looked up; with no request
\* stored the call then fails with the request-not-found error.
CancelJustCalled(r) ==
    /\ r \in BagToSet(threads') /\ r \notin Running
    /\ r.op = "cancelFollowRequest" /\ r.pc = "can_find"

C21_UndoBeforeLookup ==
    /\ [][\A f \in Users :
            LET r == [NewCall("cancelFollowRequest", "can_find", f, target)
                        EXCEPT !.pc = "can_find"] IN
            (CancelJustCalled(r) /\ IsRemote(r.e) /\ IsLocal(r.f))
            => out' = <<Delivery("Undo", r.e, r.f, r.e)>>]_vars
    /\ []((JustReturned("cancelFollowRequest") /\ RetPair \notin ret.pre.requests)
            => ret.res = "notFound")

C21_Witness ==
    /\ \E r \in Running :
          /\ r.op = "cancelFollowRequest" /\ r.pc = "can_find"
          /\ IsRemote(r.e) /\ IsLocal(r.f)
          /\ <<r.f, r.e>> \notin followRequests
          /\ out = <<Delivery("Undo", r.e, r.f, r.e)>>

\* C22: an unfollow called on a stored edge enqueues exactly the deliveries
\* of its case: one Undo to the followee's inbox when the follower is local
\* and the followee remote, one Reject to the follower's inbox when the
\* followee is local and the follower remote, and none when both are local.
ExpectedUnfollowDeliveries(f, e) ==
    IF IsLocal(f) /\ IsRemote(e) THEN <<Delivery("Undo", e, f, e)>>
    ELSE IF IsLocal(e) /\ IsRemote(f) THEN <<Delivery("Reject", f, f, e)>>
    ELSE <<>>

C22_UnfollowDeliveries ==
    (JustReturned("unfollow") /\ RetPair \in ret.pre.followings)
    => out = ExpectedUnfollowDeliveries(ret.f, ret.e)

\* C23: whenever an Accept is enqueued (to a remote follower of a local
\* followee), the Following edge follower -> followee is stored; a follow
\* that only creates a FollowRequest enqueues no Accept.
AcceptsIn(o) == {i \in 1..Len(o) : o[i].type = "Accept"}

C23_AcceptOnlyWithEdge ==
    /\ \A i \in AcceptsIn(out) :
          /\ IsRemote(out[i].f) /\ IsLocal(out[i].e)
          /\ <<out[i].f, out[i].e>> \in followings
    /\ (JustReturned("follow") /\ RetPair \in followRequests \ ret.pre.requests)
          => AcceptsIn(out) = {}

\* C24: acceptAllFollowRequests accepts its requests one after the other: no
\* two acceptances it started are in progress at the same time, and none is
\* still in progress when acceptAllFollowRequests returns.
AcceptancesInProgress ==
    {r \in Running : r.op = "acceptFollowRequest" /\ ~r.top}

C24_BatchIsSequential ==
    /\ Cardinality(AcceptancesInProgress) <= 1
    /\ \A r \in AcceptancesInProgress : CopiesIn(r, threads) = 1
    /\ JustReturned("acceptAllFollowRequests") => AcceptancesInProgress = {}

\* The first two conjuncts alone: two acceptances of one batch never overlap.
C24_NoTwoAcceptancesAtOnce ==
    /\ Cardinality(AcceptancesInProgress) <= 1
    /\ \A r \in AcceptancesInProgress : CopiesIn(r, threads) = 1

\* C25: a createFollowRequest called for a pair with a block in either
\* direction returns with a blocking error, for a remote follower as for a
\* local one; the blocks, the stored requests and the stored edges are as
\* before the call and nothing is enqueued for delivery.
BlockedBefore(f, e) == {<<f, e>>, <<e, f>>} \cap ret.pre.blockings # {}

C25_BlockedRequestRaises ==
    (JustReturned("createFollowRequest") /\ BlockedBefore(ret.f, ret.e))
    => /\ ret.res \in {"Error:blocking", "Error:blocked"}
       /\ blockings = ret.pre.blockings
       /\ StoresAsBefore
       /\ out = <<>>

C25_Witness ==
    /\ JustReturned("createFollowRequest") /\ IsRemote(ret.f)
    /\ <<ret.e, ret.f>> \in ret.pre.blockings
    /\ ret.res = "Error:blocked"

\* C26: an unfollow(F, E) called while the edge F -> E is stored returns with
\* exactly that edge removed: the edge is absent, every other edge (the
\* reverse one included) is as before, and the stored requests are as before.
C26_UnfollowRemovesExactlyTheEdge ==
    (JustReturned("unfollow") /\ RetPair \in ret.pre.followings)
    => /\ followings = ret.pre.followings \ {RetPair}
       /\ followRequests = ret.pre.requests

\* C27: with no migrated actor, when two interleaved unfollow(F, E) calls,
\* both made while the edge F -> E was stored, have returned one right after
\* the other and nothing is left running, the edge is gone and the counters
\* have been decremented once for it: F's followingCount and E's
\* followersCount equal the numbers of their remaining edges and are not
\* negative.
C27_TwoRemovalsDecrementOnce ==
    [][(/\ JustReturned("unfollow") /\ RetPair \in ret.pre.followings
        /\ JustReturned("unfollow")' /\ RetPair' = RetPair
        /\ RetPair \in ret'.pre.followings
        /\ Quiet')
       => /\ RetPair \notin followings'
          /\ followingCount'[ret.f] = Cardinality(EdgesFrom(ret.f)')
          /\ followersCount'[ret.e] = Cardinality(EdgesTo(ret.e)')
          /\ followingCount'[ret.f] >= 0 /\ followersCount'[ret.e] >= 0]_vars

\* C28: with acceptFollowRequest and cancelFollowRequest calls interleaved
\* in any way, once a cancelFollowRequest of the pending request F -> E has
\* returned without an error, no Following edge F -> E is stored, then or
\* at any later time (so also once both calls have finished).
CancelSucceeded(f) ==
    JustReturned("cancelFollowRequest") /\ ret.f = f /\ ret.res = "ok"

====
